---------------------------- MODULE Spec2Model ----------------------------
(***************************************************************************)
(* The server-side session handler of mysql-sanitizer                      *)
(* (src/server_connection.go): handshake, statement-timeout injection,     *)
(* command dispatch, result-set relay and the row sanitization transform.   *)
(* Packets are records [seq, payload] with payload a sequence of bytes      *)
(* (0..255).  The MySQL server and the client-side worker are the           *)
(* environment.                                                             *)
(***************************************************************************)
EXTENDS Integers, Sequences, FiniteSets, TLC

(***************************************************************************)
(* Bounds of the model.                                                    *)
(***************************************************************************)
MaxCmds == 2      \* commands the client side issues in one session
MaxRows == 2      \* rows the server sends in one result set
ChanCap == 1      \* packets a bridge channel holds before a send blocks

(***************************************************************************)
(* Command codes, src/server_connection.go:14-20.                          *)
(***************************************************************************)
COM_QUIT == 1
COM_INIT_DB == 2
COM_QUERY == 3
COM_FIELD_LIST == 4
COM_STATISTICS == 9
COM_PROCESS_KILL == 12
COM_PING == 14

\* sha256.Size * 2: the length of the hex digest (line 281)
HexDigestLen == 64
\* the seconds passed to setStatementTimeout (line 117)
StatementTimeoutSeconds == 20

NoPacket == [seq |-> 0, payload |-> <<>>]   \* Go's zero mysqlproto.Packet

Min(a, b) == IF a < b THEN a ELSE b

(***************************************************************************)
(* Packet Codec: length-encoded integers and strings.                      *)
(***************************************************************************)
\* v as n little-endian bytes
RECURSIVE LittleEndian(_, _)
LittleEndian(v, n) ==
    IF n = 0 THEN <<>> ELSE <<v % 256>> \o LittleEndian(v \div 256, n - 1)

\* the value of n little-endian bytes starting at buf[i]
RECURSIVE FromLittleEndian(_, _, _)
FromLittleEndian(buf, i, n) ==
    IF n = 0 THEN 0 ELSE buf[i] + 256 * FromLittleEndian(buf, i + 1, n - 1)

\* LengthEncodedInt: the minimal-width encoding of v
LengthEncodedInt(v) ==
    IF v < 251 THEN <<v>>
    ELSE IF v < 65536 THEN <<252>> \o LittleEndian(v, 2)
    ELSE IF v < 16777216 THEN <<253>> \o LittleEndian(v, 3)
    ELSE <<254>> \o LittleEndian(v, 8)

\* PacketParser.ReadEncodedInt at index i (1-based) of buf:
\* [ok, val, next]; ok is FALSE on a truncated buffer or a byte that starts
\* no integer (0xFB, 0xFF).
ReadEncodedInt(buf, i) ==
    LET fail == [ok |-> FALSE, val |-> 0, next |-> i]
        wide(n) == IF i + n <= Len(buf)
                   THEN [ok |-> TRUE, val |-> FromLittleEndian(buf, i + 1, n),
                         next |-> i + 1 + n]
                   ELSE fail
    IN  IF i > Len(buf) THEN fail
        ELSE IF buf[i] < 251 THEN [ok |-> TRUE, val |-> buf[i], next |-> i + 1]
        ELSE IF buf[i] = 252 THEN wide(2)
        ELSE IF buf[i] = 253 THEN wide(3)
        ELSE IF buf[i] = 254 THEN wide(8)
        ELSE fail

\* PacketParser.ReadStringOrNull at index i of buf:
\* [ok, nonNull, value, next]; 0xFB is NULL.
ReadStringOrNull(buf, i) ==
    LET fail == [ok |-> FALSE, nonNull |-> FALSE, value |-> <<>>, next |-> i]
    IN  IF i > Len(buf) THEN fail
        ELSE IF buf[i] = 251
        THEN [ok |-> TRUE, nonNull |-> FALSE, value |-> <<>>, next |-> i + 1]
        ELSE LET n == ReadEncodedInt(buf, i)
             IN  IF n.ok /\ n.next + n.val - 1 <= Len(buf)
                 THEN [ok |-> TRUE, nonNull |-> TRUE,
                       value |-> SubSeq(buf, n.next, n.next + n.val - 1),
                       next |-> n.next + n.val]
                 ELSE fail

(***************************************************************************)
(* Packet classification, src/server_connection.go:218-232.                *)
(***************************************************************************)
\* an OK test that looks at the marker byte only
packetIsOKAnyLength(packet) == packet.payload[1] = 0

packetIsOK(packet) == packet.payload[1] = 0 /\ Len(packet.payload) >= 7

\* an ERR test on the wrong marker byte
packetIsERRWrongMarker(packet) == packet.payload[1] = 254

packetIsERR(packet) == packet.payload[1] = 255

packetIsEOF(packet) == packet.payload[1] = 254 /\ Len(packet.payload) < 9

packetCommand(packet) == packet.payload[1]

\* a dispatch that lets every command code but 0 through
supportedCommandAllButZero(packet) == packetCommand(packet) # 0

supportedCommand(packet) ==
    LET cmd == packetCommand(packet)
    IN  \/ cmd = COM_QUIT \/ cmd = COM_INIT_DB \/ cmd = COM_QUERY
        \/ cmd = COM_FIELD_LIST \/ cmd = COM_STATISTICS
        \/ cmd = COM_PROCESS_KILL \/ cmd = COM_PING

\* the test of lines 155, 184 and 212
IsTerminal(packet) ==
    packetIsOK(packet) \/ packetIsERR(packet) \/ packetIsEOF(packet)

(***************************************************************************)
(* Column Catalog.  A Column is [name, length]; the column-definition      *)
(* packet carries the fixed field layout of the protocol.                  *)
(***************************************************************************)
\* names of the columns whose values may be shown (the policy hook)
SafeNames == {<<105>>}                    \* "i"

\* Column.IsSafe
IsSafe(col) == col.name \in SafeNames

\* the payload of the column-definition packet the server sends for col
EncodeColumn(col) ==
    <<3, 100, 101, 102>>                  \* catalog "def"
    \o <<0>> \o <<0>> \o <<0>>            \* schema, table, original table
    \o LengthEncodedInt(Len(col.name)) \o col.name \o <<0>>  \* name, original name
    \o <<12>>                             \* fixed-length marker
    \o <<33, 0>>                          \* character set
    \o LittleEndian(col.length, 4)        \* column length
    \o <<253>> \o <<0, 0>> \o <<0>> \o <<0, 0>>  \* type, flags, decimals, filler

\* n length-encoded strings starting at buf[i]: [ok, fields, next]
RECURSIVE ReadStrings(_, _, _)
ReadStrings(buf, i, n) ==
    IF n = 0 THEN [ok |-> TRUE, fields |-> <<>>, next |-> i]
    ELSE LET f == ReadStringOrNull(buf, i)
         IN  IF ~f.ok THEN [ok |-> FALSE, fields |-> <<>>, next |-> i]
             ELSE LET rest == ReadStrings(buf, f.next, n - 1)
                  IN  [ok |-> rest.ok,
                       fields |-> <<[nonNull |-> f.nonNull, value |-> f.value]>>
                                  \o rest.fields,
                       next |-> rest.next]

\* ReadColumn: [ok, col]; ok is FALSE (MalformedPacket) on a truncated field
ReadColumn(payload) ==
    LET strs == ReadStrings(payload, 1, 6)
        mark == ReadEncodedInt(payload, strs.next)
        bad  == [ok |-> FALSE, col |-> [name |-> <<>>, length |-> 0]]
    IN  IF ~strs.ok THEN bad
        ELSE IF ~mark.ok \/ mark.next + 11 > Len(payload) THEN bad
        ELSE [ok |-> TRUE,
              col |-> [name |-> strs.fields[5].value,
                       length |-> FromLittleEndian(payload, mark.next + 2, 4)]]

(***************************************************************************)
(* Sanitization Transform, src/server_connection.go:279-288.               *)
(***************************************************************************)
\* config.HashSaltBytes
HashSaltBytes == <<115, 97, 108, 116>>

\* a stand-in for sha256.Sum256 followed by hex.Encode: a deterministic
\* function of the bytes that yields HexDigestLen lower-case hex characters
RECURSIVE Absorb(_, _, _)
Absorb(h, bytes, i) ==
    IF i > Len(bytes) THEN h
    ELSE Absorb((h * 31 + bytes[i] + 1) % 65521, bytes, i + 1)

HexChar(n) == IF n < 10 THEN 48 + n ELSE 87 + n

Sha256Hex(bytes) ==
    LET h == Absorb(7, bytes, 1)
    IN  [k \in 1..HexDigestLen |-> HexChar(((h + k) * (k + 3)) % 16)]

\* a transform that never truncates the digest
sanitizeRowNoTruncate(row, column) == Sha256Hex(row \o HashSaltBytes)

sanitizeRow(row, column) ==
    LET newRow == Sha256Hex(row \o HashSaltBytes)
    IN  IF Len(newRow) > column.length
        THEN SubSeq(newRow, 1, column.length)
        ELSE newRow

(***************************************************************************)
(* Row decoding and rebuilding, src/server_connection.go:259-299.          *)
(* A row value is [nil, bytes]: Go's nil slice for NULL, or the bytes.      *)
(***************************************************************************)
NilValue == [nil |-> TRUE, bytes |-> <<>>]

\* the loop of readRowValues from column k on, the parser standing at i:
\* [ok, rows]; ok is FALSE when the parser runs off the payload
RECURSIVE readRowLoop(_, _, _, _)
readRowLoop(payload, columns, k, i) ==
    IF k > Len(columns) THEN [ok |-> TRUE, rows |-> <<>>]
    ELSE LET f    == ReadStringOrNull(payload, i)
             col  == columns[k]
             rowVal == IF ~f.nonNull THEN NilValue
                       ELSE IF ~IsSafe(col)
                       THEN [nil |-> FALSE, bytes |-> sanitizeRow(f.value, col)]
                       ELSE [nil |-> FALSE, bytes |-> f.value]
         IN  IF ~f.ok THEN [ok |-> FALSE, rows |-> <<>>]
             ELSE LET rest == readRowLoop(payload, columns, k + 1, f.next)
                  IN  [ok |-> rest.ok, rows |-> <<rowVal>> \o rest.rows]

readRowValues(packet, columns) == readRowLoop(packet.payload, columns, 1, 1)

\* the calls of col.IsSafe() that readRowValues makes for the columns from
\* k on (line 267: one for each value that is not NULL)
RECURSIVE IsSafeCalls(_, _, _, _)
IsSafeCalls(payload, columns, k, i) ==
    IF k > Len(columns) THEN <<>>
    ELSE LET f == ReadStringOrNull(payload, i)
         IN  IF ~f.ok THEN [j \in 1..(Len(columns) - k + 1) |-> 0]
             ELSE <<IF f.nonNull THEN 1 ELSE 0>>
                  \o IsSafeCalls(payload, columns, k + 1, f.next)

RECURSIVE EncodeRows(_)
EncodeRows(rows) ==
    IF rows = <<>> THEN <<>>
    ELSE LengthEncodedInt(Len(Head(rows).bytes)) \o Head(rows).bytes
         \o EncodeRows(Tail(rows))

\* a rebuild that numbers the packet one past the original
constructNewResponseNextSeq(originalPacket, rows) ==
    [seq |-> (originalPacket.seq + 1) % 256, payload |-> EncodeRows(rows)]

\* a rebuild that writes the values without their length prefixes
RECURSIVE BareRows(_)
BareRows(rows) ==
    IF rows = <<>> THEN <<>> ELSE Head(rows).bytes \o BareRows(Tail(rows))

constructNewResponseNoPrefix(originalPacket, rows) ==
    [seq |-> originalPacket.seq, payload |-> BareRows(rows)]

constructNewResponse(originalPacket, rows) ==
    [seq |-> originalPacket.seq, payload |-> EncodeRows(rows)]

(***************************************************************************)
(* Packets the handler builds itself.                                      *)
(***************************************************************************)
\* the decimal digits of n, as ASCII
RECURSIVE Decimal(_)
Decimal(n) == IF n < 10 THEN <<48 + n>> ELSE Decimal(n \div 10) \o <<48 + (n % 10)>>

\* two lower-case hex digits, fmt's %02x
Hex02(b) == <<HexChar(b \div 16), HexChar(b % 16)>>

\* setCommand of setStatementTimeout (lines 132-133):
\* "\x03SET max_statement_time = <seconds*1000>", sequence id 0
TimeoutCommand(seconds) ==
    [seq |-> 0,
     payload |-> <<COM_QUERY>> \o <<83, 69, 84, 32, 109, 97, 120, 95, 115, 116, 97, 116, 101, 109, 101, 110, 116, 95, 116, 105, 109, 101, 32, 61, 32>> \o Decimal(seconds * 1000)]

\* ErrorPacket(sequenceID, code, state, format, cmd): 0xFF, the code in two
\* little-endian bytes, "#", the SQL state, the message
ErrorPacket(sequenceID, code, state, cmd) ==
    [seq |-> sequenceID,
     payload |-> <<255>> \o LittleEndian(code, 2) \o <<35>> \o state
                 \o <<109, 121, 115, 113, 108, 45, 115, 97, 110, 105, 116, 105, 122, 101, 114, 32, 100, 111, 101, 115, 110, 39, 116, 32, 115, 117, 112, 112, 111, 114, 116, 32, 116, 104, 105, 115, 32, 99, 111, 109, 109, 97, 110, 100, 58, 32, 48, 120>> \o Hex02(cmd)]

SqlStateHY000 == <<72, 89, 48, 48, 48>>

(***************************************************************************)
(* The environment: what a MySQL server sends.                             *)
(***************************************************************************)
\* the columns a result set may have: unsafe "e" of several declared
\* lengths, safe "i"
ColE(n) == [name |-> <<101>>, length |-> n]
ColI == [name |-> <<105>>, length |-> 11]
Catalogs ==
    { <<ColE(64)>>, <<ColI, ColE(3)>>, <<ColE(70), ColI>> }

\* the values a field of a row may have: NULL, "", "secret!"
FieldValues ==
    { NilValue, [nil |-> FALSE, bytes |-> <<>>],
      [nil |-> FALSE, bytes |-> <<115, 101, 99, 114, 101, 116, 33>>] }

\* the server's encoding of a row: 0xFB for NULL, else length-prefixed bytes
RECURSIVE ServerRow(_)
ServerRow(fields) ==
    IF fields = <<>> THEN <<>>
    ELSE (IF Head(fields).nil THEN <<251>>
          ELSE LengthEncodedInt(Len(Head(fields).bytes)) \o Head(fields).bytes)
         \o ServerRow(Tail(fields))

\* a row cut short in transit: its field declares five bytes, one follows
TruncatedRow == <<5, 115>>

\* the rows a result set over cat may carry: every combination of the field
\* values and, over one column, the row cut short
RowsOf(cat) ==
    { ServerRow(f) : f \in [1..Len(cat) -> FieldValues] }
    \cup (IF Len(cat) = 1 THEN {TruncatedRow} ELSE {})

GreetingPayload == <<10, 53, 0>>
OKPayload == <<0, 0, 0, 2, 0, 0, 0>>
ERRPayload == <<255, 21, 4, 35, 50, 56, 48, 48, 48>>
EOFPayload == <<254, 0, 0, 2, 0>>
StatisticsPayload == <<85, 112>>
HandshakeResponse == [seq |-> 1, payload |-> <<5, 162, 114>>]

\* the server: phase, the packets it has received and not yet answered (q),
\* whether the client is authenticated, the catalog and the column index of
\* the response under way, the rows sent of it, the next sequence id
SrvInit ==
    [phase |-> "greet", q |-> <<>>, authed |-> FALSE, cat |-> <<>>, i |-> 0,
     kind |-> "none", rows |-> 0, seq |-> 0]

SrvPkt(s, payload) == [seq |-> s.seq % 256, payload |-> payload]

\* the server's next packet, given its state: a set of [pkt, srv]
SrvEmit(s) ==
    LET step(payload, phase, t) ==
            [pkt |-> SrvPkt(t, payload),
             srv |-> [t EXCEPT !.phase = phase, !.seq = t.seq + 1]]
    IN  IF s.phase = "greet" THEN { step(GreetingPayload, "wait", s) }
        ELSE IF s.phase = "defs"
        THEN { step(EncodeColumn(s.cat[s.i + 1]),
                    IF s.i + 1 = Len(s.cat) THEN "defsEOF" ELSE "defs",
                    [s EXCEPT !.i = s.i + 1]) }
        ELSE IF s.phase = "defsEOF"
        THEN { step(EOFPayload, IF s.kind = "query" THEN "rows" ELSE "wait", s) }
        ELSE IF s.phase = "rows"
        THEN { step(EOFPayload, "wait", s), step(ERRPayload, "wait", s) }
             \cup { step(r, "rows", [s EXCEPT !.rows = s.rows + 1]) :
                    r \in IF s.rows < MaxRows THEN RowsOf(s.cat) ELSE {} }
        ELSE IF s.phase = "wait" /\ s.q # <<>>
        THEN LET c == Head(s.q)
                 t == [s EXCEPT !.q = Tail(s.q), !.seq = c.seq + 1, !.rows = 0,
                                !.i = 0]
                 cmd == c.payload[1]
                 okerr == { step(OKPayload, "wait", t), step(ERRPayload, "wait", t) }
             IN  IF ~s.authed
                 THEN { step(OKPayload, "wait", [t EXCEPT !.authed = TRUE]),
                        step(ERRPayload, "gone", t) }
                 ELSE IF cmd = COM_QUIT THEN {}
                 ELSE IF c = TimeoutCommand(StatementTimeoutSeconds) THEN okerr
                 ELSE IF cmd = COM_QUERY
                 THEN okerr \cup
                      { step(LengthEncodedInt(Len(cat)), "defs",
                             [t EXCEPT !.cat = cat, !.kind = "query"]) :
                        cat \in Catalogs }
                 ELSE IF cmd = COM_FIELD_LIST
                 THEN { step(ERRPayload, "wait", t) } \cup
                      { step(EncodeColumn(cat[1]),
                             IF Len(cat) = 1 THEN "defsEOF" ELSE "defs",
                             [t EXCEPT !.cat = cat, !.kind = "fields", !.i = 1]) :
                        cat \in Catalogs }
                 ELSE IF cmd = COM_STATISTICS
                 THEN { step(StatisticsPayload, "wait", t) }
                 ELSE IF cmd = COM_PING THEN { step(OKPayload, "wait", t) }
                 ELSE okerr
        ELSE {}

\* the server has closed the connection: after a refused login, or when the
\* next packet it handles is COM_QUIT
ServerClosed(s) ==
    \/ s.phase = "gone"
    \/ s.phase = "wait" /\ s.authed /\ s.q # <<>> /\ Head(s.q).payload[1] = COM_QUIT

SrvReceive(s, p) == [s EXCEPT !.q = Append(s.q, p)]

(***************************************************************************)
(* The state of one session.                                               *)
(***************************************************************************)
VARIABLES
    pc,            \* where the handler's goroutine stands
    finished,      \* ServerConnection.finished
    closed,        \* proxy.Close() has run (the deferred call of Run)
    towardServer,  \* proxy.ServerChannel: packets of the client side
    towardClient,  \* proxy.ClientChannel: entries [pkt, src, how]
    packet,        \* the command taken in Run (line 59)
    response,      \* the packet of the last NextPacket
    authResponse,  \* doHandshake's response (line 103), kept until line 124
    out,           \* the packet the handler is about to send on towardClient
    columns,       \* the columns read by readColumnDefinitions
    columnCount,   \* columnCount of readColumnDefinitions
    conn,          \* the server socket: "up" or "down"
    srv,           \* the MySQL server
    written,       \* the packets delivered to the server, in order
    nRead,         \* packets read from the server so far
    forwarded,     \* the reads (1..nRead) whose packet was put on towardClient
    nTaken,        \* packets taken from towardServer so far
    clientSent,    \* packets the client side has put on towardServer
    sanitizing     \* ServerConnection.sanitizing

vars == <<pc, finished, closed, towardServer, towardClient, packet, response,
          authResponse, out, columns, columnCount, conn, srv, written, nRead,
          forwarded, nTaken, clientSent, sanitizing>>

\* an entry of towardClient: the packet, the read (1..nRead) whose packet it
\* derives from (0: none), and how: "verbatim", "rebuilt" or "synth"
Entry(p, src, how) == [pkt |-> p, src |-> src, how |-> how]
NoEntry == Entry(NoPacket, 0, "none")

\* the commands a client may issue; 22 (0x16) is not supported
ClientCommands ==
    { COM_QUIT, COM_QUERY, COM_FIELD_LIST, COM_PING, 22 }

Init ==
    /\ pc = "greeting"
    /\ finished = FALSE
    /\ closed = FALSE
    /\ towardServer = <<>>
    /\ towardClient = <<>>
    /\ packet = NoPacket
    /\ response = NoPacket
    /\ authResponse = NoEntry
    /\ out = NoEntry
    /\ columns = <<>>
    /\ columnCount = 0
    /\ conn = "up"
    /\ srv = SrvInit
    /\ written = <<>>
    /\ nRead = 0
    /\ forwarded = {}
    /\ nTaken = 0
    /\ clientSent = 0
    /\ sanitizing = FALSE

(***************************************************************************)
(* The primitives of the server transport and of the bridge.               *)
(***************************************************************************)
\* stream.NextPacket(): the outcomes [err, pkt, srv].  On an error the
\* packet is the zero Packet.
NextPacket ==
    { [err |-> TRUE, pkt |-> NoPacket, srv |-> srv] }
    \cup IF conn = "up" /\ ~ServerClosed(srv)
         THEN { [err |-> FALSE, pkt |-> e.pkt, srv |-> e.srv] : e \in SrvEmit(srv) }
         ELSE {}

\* the effect of a NextPacket outcome r on the transport
Receive(r) ==
    /\ response' = r.pkt
    /\ srv' = r.srv
    /\ conn' = IF r.err THEN "down" ELSE conn
    /\ nRead' = IF r.err THEN nRead ELSE nRead + 1

\* WritePacket(stream, p): delivered, or lost with the connection; the
\* handler does not look at the result
WritePacket(p) ==
    \/ /\ conn = "up"
       /\ conn' = conn
       /\ srv' = SrvReceive(srv, p)
       /\ written' = Append(written, p)
    \/ /\ conn' = "down"
       /\ UNCHANGED <<srv, written>>

\* <-proxy.ServerChannel: blocks while the channel is empty and open; a
\* closed channel hands out what it still holds and then the zero Packet
CanTake == towardServer # <<>> \/ closed
Taken == IF towardServer # <<>> THEN Head(towardServer) ELSE NoPacket
Rest == IF towardServer # <<>> THEN Tail(towardServer) ELSE <<>>
Arrived == IF towardServer # <<>> THEN 1 ELSE 0

\* proxy.ClientChannel <- out.pkt: blocks while the channel is full
Send ==
    /\ Len(towardClient) < ChanCap
    /\ towardClient' = Append(towardClient, out)
    /\ forwarded' = IF out.src = 0 THEN forwarded ELSE forwarded \cup {out.src}
    /\ out' = NoEntry

\* a panic (index out of range): the deferred proxy.Close() runs, then the
\* process dies
Panic ==
    /\ pc' = "crashed"
    /\ closed' = TRUE

\* proxy.ClientChannel <- out.pkt, then on to next; a send on a channel that
\* was closed panics
SendThen(next) ==
    IF closed
    THEN /\ pc' = "crashed"
         /\ UNCHANGED <<towardClient, forwarded, out>>
    ELSE /\ Send
         /\ pc' = next

\* an error path that returns without setting finished
FailNotFinished ==
    /\ finished' = finished
    /\ pc' = "loop"

\* finished = true; return (the run loop then exits)
Fail ==
    /\ finished' = TRUE
    /\ pc' = "loop"

(***************************************************************************)
(* doHandshake, src/server_connection.go:90-125.                           *)
(***************************************************************************)
Greeting ==
    /\ pc = "greeting"
    /\ \E r \in NextPacket :
          /\ Receive(r)
          /\ IF r.err
             THEN Fail /\ out' = out
             ELSE /\ out' = Entry(r.pkt, nRead + 1, "verbatim")
                  /\ pc' = "sendWelcome"
                  /\ finished' = finished
    /\ UNCHANGED <<closed, towardServer, towardClient, packet, authResponse,
                   columns, columnCount, written, forwarded, nTaken, clientSent,
                   sanitizing>>

SendWelcome ==
    /\ pc = "sendWelcome"
    /\ SendThen("recvHandshake")
    /\ UNCHANGED <<finished, closed, towardServer, packet, response,
                   authResponse, columns, columnCount, conn, srv, written,
                   nRead, nTaken, clientSent,
                   sanitizing>>

RecvHandshake ==
    /\ pc = "recvHandshake"
    /\ CanTake
    /\ towardServer' = Rest
    /\ nTaken' = nTaken + Arrived
    /\ WritePacket(Taken)
    /\ pc' = "authResult"
    /\ UNCHANGED <<finished, closed, towardClient, packet, response,
                   authResponse, out, columns, columnCount, nRead, forwarded,
                   clientSent,
                   sanitizing>>

AuthResult ==
    /\ pc = "authResult"
    /\ \E r \in NextPacket :
          /\ Receive(r)
          /\ IF r.err THEN Fail /\ authResponse' = authResponse
             ELSE IF ~packetIsOK(r.pkt) THEN Fail /\ authResponse' = authResponse
             ELSE /\ authResponse' = Entry(r.pkt, nRead + 1, "verbatim")
                  /\ pc' = "setTimeout"
                  /\ finished' = finished
    /\ UNCHANGED <<closed, towardServer, towardClient, packet, out, columns,
                   columnCount, written, forwarded, nTaken, clientSent,
                   sanitizing>>

\* setStatementTimeout, lines 131-135: the write
SetTimeout ==
    /\ pc = "setTimeout"
    /\ WritePacket(TimeoutCommand(StatementTimeoutSeconds))
    /\ pc' = "timeoutAnswer"
    /\ UNCHANGED <<finished, closed, towardServer, towardClient, packet,
                   response, authResponse, out, columns, columnCount, nRead,
                   forwarded, nTaken, clientSent,
                   sanitizing>>

\* setStatementTimeout, lines 137-142, and doHandshake, lines 118-124:
\* packetIsERR reads Payload[0] before err is looked at
TimeoutAnswer ==
    /\ pc = "timeoutAnswer"
    /\ \E r \in NextPacket :
          /\ Receive(r)
          /\ IF Len(r.pkt.payload) = 0
             THEN Panic /\ UNCHANGED <<finished, out>>
             ELSE IF packetIsERR(r.pkt) \/ r.err
             THEN Fail /\ UNCHANGED <<closed, out>>
             ELSE /\ out' = authResponse
                  /\ pc' = "sendAuthOK"
                  /\ UNCHANGED <<finished, closed>>
    /\ UNCHANGED <<towardServer, towardClient, packet, authResponse, columns,
                   columnCount, written, forwarded, nTaken, clientSent,
                   sanitizing>>

SendAuthOK ==
    /\ pc = "sendAuthOK"
    /\ SendThen("loop")
    /\ UNCHANGED <<finished, closed, towardServer, packet, response,
                   authResponse, columns, columnCount, conn, srv, written,
                   nRead, nTaken, clientSent,
                   sanitizing>>

(***************************************************************************)
(* Run, src/server_connection.go:54-74.                                    *)
(***************************************************************************)
\* lines 58-70: take a command; forward it, or build the error packet
TakeCommand ==
    /\ pc = "loop"
    /\ ~finished
    /\ CanTake
    /\ LET p == Taken
       IN  /\ packet' = p
           /\ towardServer' = Rest
           /\ nTaken' = nTaken + Arrived
           /\ IF Len(p.payload) = 0
              THEN Panic /\ UNCHANGED <<out, conn, srv, written>>
              ELSE IF supportedCommand(p)
              THEN /\ WritePacket(p)
                   /\ pc' = IF packetCommand(p) = COM_QUERY
                            THEN "queryFirst" ELSE "other"
                   /\ UNCHANGED <<out, closed>>
              ELSE /\ out' = Entry(ErrorPacket(p.seq, 1002, SqlStateHY000,
                                               packetCommand(p)), 0, "synth")
                   /\ pc' = "sendErr"
                   /\ UNCHANGED <<closed, conn, srv, written>>
    /\ UNCHANGED <<finished, towardClient, response, authResponse, columns,
                   columnCount, nRead, forwarded, clientSent,
                   sanitizing>>

\* line 71
SendErr ==
    /\ pc = "sendErr"
    /\ SendThen("loop")
    /\ UNCHANGED <<finished, closed, towardServer, packet, response,
                   authResponse, columns, columnCount, conn, srv, written,
                   nRead, nTaken, clientSent,
                   sanitizing>>

\* the loop condition fails; Run returns and the deferred proxy.Close() runs
RunExit ==
    /\ pc = "loop"
    /\ finished
    /\ closed' = TRUE
    /\ pc' = "done"
    /\ UNCHANGED <<finished, towardServer, towardClient, packet, response,
                   authResponse, out, columns, columnCount, conn, srv, written,
                   nRead, forwarded, nTaken, clientSent,
                   sanitizing>>

(***************************************************************************)
(* handleQueryResponse and readColumnDefinitions, lines 145-200, 234-257.  *)
(***************************************************************************)
\* columnCount of line 236: ReadEncodedInt has no error result, so on a
\* payload that starts no integer the call panics (-1) or yields 0
ColumnCounts(payload) ==
    LET n == ReadEncodedInt(payload, 1)
    IN  IF n.ok THEN {n.val} ELSE {0, -1}

\* lines 147-157 and 235-238
QueryFirst ==
    /\ pc = "queryFirst"
    /\ \E r \in NextPacket :
          /\ Receive(r)
          /\ IF r.err
             THEN Fail /\ UNCHANGED <<out, columnCount, closed>>
             ELSE IF IsTerminal(r.pkt)
             THEN /\ out' = Entry(r.pkt, nRead + 1, "verbatim")
                  /\ pc' = "sendFirst"
                  /\ UNCHANGED <<finished, columnCount, closed>>
             ELSE \E n \in ColumnCounts(r.pkt.payload) :
                     IF n < 0
                     THEN Panic /\ UNCHANGED <<finished, out, columnCount>>
                     ELSE /\ columnCount' = n
                          /\ out' = Entry(r.pkt, nRead + 1, "verbatim")
                          /\ pc' = "sendCount"
                          /\ UNCHANGED <<finished, closed>>
    /\ UNCHANGED <<towardServer, towardClient, packet, authResponse, columns,
                   written, forwarded, nTaken, clientSent,
                   sanitizing>>

\* lines 156-157
SendFirst ==
    /\ pc = "sendFirst"
    /\ SendThen("loop")
    /\ UNCHANGED <<finished, closed, towardServer, packet, response,
                   authResponse, columns, columnCount, conn, srv, written,
                   nRead, nTaken, clientSent,
                   sanitizing>>

\* lines 238-241
SendCount ==
    /\ pc = "sendCount"
    /\ SendThen(IF columnCount = 0 THEN "colEOF" ELSE "colDef")
    /\ columns' = IF closed THEN columns ELSE <<>>
    /\ UNCHANGED <<finished, closed, towardServer, packet, response,
                   authResponse, columnCount, conn, srv, written, nRead,
                   nTaken, clientSent,
                   sanitizing>>

\* lines 242-247
ColDef ==
    /\ pc = "colDef"
    /\ \E r \in NextPacket :
          /\ Receive(r)
          /\ IF r.err
             THEN Fail /\ out' = out
             ELSE /\ out' = Entry(r.pkt, nRead + 1, "verbatim")
                  /\ pc' = "sendColDef"
                  /\ finished' = finished
    /\ UNCHANGED <<closed, towardServer, towardClient, packet, authResponse,
                   columns, columnCount, written, forwarded, nTaken, clientSent,
                   sanitizing>>

\* lines 248-255, and 160-164 when ReadColumn fails
SendColDef ==
    /\ pc = "sendColDef"
    /\ LET c == ReadColumn(response.payload)
       IN  IF closed
           THEN SendThen("colDef") /\ UNCHANGED <<columns, finished>>
           ELSE IF ~c.ok
           THEN Send /\ Fail /\ columns' = columns
           ELSE /\ SendThen(IF Len(columns) + 1 = columnCount
                            THEN "colEOF" ELSE "colDef")
                /\ columns' = Append(columns, c.col)
                /\ finished' = finished
    /\ UNCHANGED <<closed, towardServer, packet, response, authResponse,
                   columnCount, conn, srv, written, nRead, nTaken, clientSent,
                   sanitizing>>

\* lines 166-172
ColEOF ==
    /\ pc = "colEOF"
    /\ \E r \in NextPacket :
          /\ Receive(r)
          /\ IF r.err
             THEN Fail /\ out' = out
             ELSE /\ out' = Entry(r.pkt, nRead + 1, "verbatim")
                  /\ pc' = "sendColEOF"
                  /\ finished' = finished
    /\ UNCHANGED <<closed, towardServer, towardClient, packet, authResponse,
                   columns, columnCount, written, forwarded, nTaken, clientSent,
                   sanitizing>>

\* line 173
SendColEOF ==
    /\ pc = "sendColEOF"
    /\ SendThen("rows")
    /\ UNCHANGED <<finished, closed, towardServer, packet, response,
                   authResponse, columns, columnCount, conn, srv, written,
                   nRead, nTaken, clientSent,
                   sanitizing>>

\* the outcomes of readRowValues: the parser has no error result, so where
\* it runs off the payload the call panics or the rest reads as NULL
RECURSIVE Nils(_)
Nils(n) == IF n = 0 THEN <<>> ELSE <<NilValue>> \o Nils(n - 1)

RowValues(p, cols) ==
    LET v == readRowValues(p, cols)
    IN  IF v.ok THEN { [panic |-> FALSE, rows |-> v.rows] }
        ELSE { [panic |-> TRUE, rows |-> <<>>],
               [panic |-> FALSE,
                rows |-> v.rows \o Nils(Len(cols) - Len(v.rows))] }

\* a row loop that rewrites rows only while the sanitizing flag is set
RowGated ==
    /\ pc = "rows"
    /\ \E r \in NextPacket :
          /\ Receive(r)
          /\ IF r.err
             THEN Fail /\ UNCHANGED <<out, closed>>
             ELSE IF IsTerminal(r.pkt)
             THEN /\ out' = Entry(r.pkt, nRead + 1, "verbatim")
                  /\ pc' = "sendLast"
                  /\ UNCHANGED <<finished, closed>>
             ELSE \E v \in RowValues(r.pkt, columns) :
                     IF v.panic
                     THEN Panic /\ UNCHANGED <<finished, out>>
                     ELSE /\ out' = Entry(IF sanitizing
                                          THEN constructNewResponse(r.pkt, v.rows)
                                          ELSE r.pkt,
                                          nRead + 1, "rebuilt")
                          /\ pc' = "sendRow"
                          /\ UNCHANGED <<finished, closed>>
    /\ UNCHANGED <<towardServer, towardClient, packet, authResponse, columns,
                   columnCount, written, forwarded, nTaken, clientSent,
                   sanitizing>>

\* lines 176-196: read a packet of the row loop, classify it, rebuild a row
Row ==
    /\ pc = "rows"
    /\ \E r \in NextPacket :
          /\ Receive(r)
          /\ IF r.err
             THEN Fail /\ UNCHANGED <<out, closed>>
             ELSE IF IsTerminal(r.pkt)
             THEN /\ out' = Entry(r.pkt, nRead + 1, "verbatim")
                  /\ pc' = "sendLast"
                  /\ UNCHANGED <<finished, closed>>
             ELSE \E v \in RowValues(r.pkt, columns) :
                     IF v.panic
                     THEN Panic /\ UNCHANGED <<finished, out>>
                     ELSE /\ out' = Entry(constructNewResponse(r.pkt, v.rows),
                                          nRead + 1, "rebuilt")
                          /\ pc' = "sendRow"
                          /\ UNCHANGED <<finished, closed>>
    /\ UNCHANGED <<towardServer, towardClient, packet, authResponse, columns,
                   columnCount, written, forwarded, nTaken, clientSent,
                   sanitizing>>

\* lines 185-186
SendLast ==
    /\ pc = "sendLast"
    /\ SendThen("loop")
    /\ UNCHANGED <<finished, closed, towardServer, packet, response,
                   authResponse, columns, columnCount, conn, srv, written,
                   nRead, nTaken, clientSent,
                   sanitizing>>

\* line 196
SendRow ==
    /\ pc = "sendRow"
    /\ SendThen("rows")
    /\ UNCHANGED <<finished, closed, towardServer, packet, response,
                   authResponse, columns, columnCount, conn, srv, written,
                   nRead, nTaken, clientSent,
                   sanitizing>>

(***************************************************************************)
(* handleOtherResponse, lines 202-216.                                     *)
(***************************************************************************)
Other ==
    /\ pc = "other"
    /\ \E r \in NextPacket :
          /\ Receive(r)
          /\ IF r.err
             THEN Fail /\ out' = out
             ELSE /\ out' = Entry(r.pkt, nRead + 1, "verbatim")
                  /\ pc' = "sendOther"
                  /\ finished' = finished
    /\ UNCHANGED <<closed, towardServer, towardClient, packet, authResponse,
                   columns, columnCount, written, forwarded, nTaken, clientSent,
                   sanitizing>>

\* a generic response that ends after its first packet
SendOtherOnce ==
    /\ pc = "sendOther"
    /\ SendThen("loop")
    /\ UNCHANGED <<finished, closed, towardServer, packet, response,
                   authResponse, columns, columnCount, conn, srv, written,
                   nRead, nTaken, clientSent,
                   sanitizing>>

SendOther ==
    /\ pc = "sendOther"
    /\ SendThen(IF IsTerminal(response) THEN "loop" ELSE "other")
    /\ UNCHANGED <<finished, closed, towardServer, packet, response,
                   authResponse, columns, columnCount, conn, srv, written,
                   nRead, nTaken, clientSent,
                   sanitizing>>

(***************************************************************************)
(* The client-side worker, the other end of the bridge.                    *)
(***************************************************************************)
\* it puts the handshake response, then commands, on towardServer
ClientSend ==
    /\ ~closed
    /\ clientSent < MaxCmds + 1
    /\ Len(towardServer) < ChanCap
    /\ \E p \in IF clientSent = 0 THEN {HandshakeResponse}
                ELSE { [seq |-> 0, payload |-> <<c>>] : c \in ClientCommands } :
          towardServer' = Append(towardServer, p)
    /\ clientSent' = clientSent + 1
    /\ UNCHANGED <<pc, finished, closed, towardClient, packet, response,
                   authResponse, out, columns, columnCount, conn, srv, written,
                   nRead, forwarded, nTaken, sanitizing>>

\* it takes a packet from towardClient (and writes it to the client socket)
ClientReceive ==
    /\ towardClient # <<>>
    /\ towardClient' = Tail(towardClient)
    /\ UNCHANGED <<pc, finished, closed, towardServer, packet, response,
                   authResponse, out, columns, columnCount, conn, srv, written,
                   nRead, forwarded, nTaken, clientSent,
                   sanitizing>>

Handler ==
    \/ Greeting \/ SendWelcome \/ RecvHandshake \/ AuthResult \/ SetTimeout
    \/ TimeoutAnswer \/ SendAuthOK \/ TakeCommand \/ SendErr \/ RunExit
    \/ QueryFirst \/ SendFirst \/ SendCount \/ ColDef \/ SendColDef \/ ColEOF
    \/ SendColEOF \/ Row \/ SendLast \/ SendRow \/ Other \/ SendOther

Next == Handler \/ ClientSend \/ ClientReceive

Spec == Init /\ [][Next]_vars

\* the client-side worker meets a fatal condition and tears the bridge down
\* while the handler runs: both channels and both sockets are closed
ClientClose ==
    /\ ~closed
    /\ closed' = TRUE
    /\ conn' = "down"
    /\ UNCHANGED <<pc, finished, towardServer, towardClient, packet, response,
                   authResponse, out, columns, columnCount, srv, written,
                   nRead, forwarded, nTaken, clientSent,
                   sanitizing>>

\* ToggleSanitizing, src/server_connection.go:50-52, called from the client
\* side's goroutine at any time
ToggleSanitizing(active) ==
    /\ sanitizing # active
    /\ sanitizing' = active
    /\ UNCHANGED <<pc, finished, closed, towardServer, towardClient, packet,
                   response, authResponse, out, columns, columnCount, conn,
                   srv, written, nRead, forwarded, nTaken, clientSent>>

ToggleNext == Next \/ \E active \in BOOLEAN : ToggleSanitizing(active)

\* the sessions in which the flag is set and cleared at any time
ToggleSpec == Init /\ [][ToggleNext]_vars

BridgeNext == Next \/ ClientClose

\* the sessions in which the client side may tear the bridge down
BridgeSpec == Init /\ [][BridgeNext]_vars

\* the handler's goroutine is scheduled: standing at the loop test with
\* finished set, it leaves the loop and runs the deferred Close
FairSpec == Spec /\ WF_vars(RunExit)

(***************************************************************************)
(* Properties.                                                             *)
(***************************************************************************)
\* the entries now on towardClient
OnChannel == { towardClient[k] : k \in 1..Len(towardClient) }

\* the last NextPacket succeeded: response is packet number nRead
LastReadOK == response # NoPacket

\* the entries on towardClient that derive from the packet read last
\* (response is still that packet)
FromLastRead ==
    { e \in OnChannel : LastReadOK /\ e.src # 0 /\ e.src = nRead }

\* the last packet read is a row the server sent between the column-block
\* EOF and the terminal packet of a result set
ServerSentRow == srv.phase = "rows" /\ srv.rows > 0 /\ srv.kind = "query"

\* the n fields of a row payload
Fields(payload, n) == ReadStrings(payload, 1, n)

\* payload is a row over n columns: n fields and nothing else
IsRowOver(payload, n) ==
    Fields(payload, n).ok /\ Fields(payload, n).next = Len(payload) + 1

\* C1: every row the server sends in a result set reaches towardClient with,
\* for each column failing isSafe whose field is non-null, the sanitize()
\* output in place of the value.
C1_RowsSanitized ==
    \A e \in FromLastRead :
        (ServerSentRow /\ IsRowOver(response.payload, Len(srv.cat))) =>
            LET n    == Len(srv.cat)
                orig == Fields(response.payload, n)
                sent == Fields(e.pkt.payload, n)
            IN  /\ sent.ok
                /\ \A i \in 1..n :
                      ~IsSafe(srv.cat[i]) /\ orig.fields[i].nonNull =>
                          /\ sent.fields[i].nonNull
                          /\ sent.fields[i].value =
                                sanitizeRow(orig.fields[i].value, srv.cat[i])

\* the codes of QUIT, INIT_DB, QUERY, FIELD_LIST, STATISTICS, PROCESS_KILL, PING
SupportedCodes == {1, 2, 3, 4, 9, 12, 14}

IsUnsupportedError(p, cmd) ==
    /\ p.payload[1] = 255
    /\ SubSeq(p.payload, 2, 3) = LittleEndian(1002, 2)
    /\ SubSeq(p.payload, 5, 9) = SqlStateHY000
    /\ SubSeq(p.payload, Len(p.payload) - 1, Len(p.payload)) = Hex02(cmd)

C2_Step ==
    /\ ( /\ pc = "loop" /\ nTaken' = nTaken + 1
         /\ Head(towardServer).payload # <<>>
         /\ Head(towardServer).payload[1] \notin SupportedCodes )
       => /\ pc' = "sendErr"
          /\ out'.how = "synth"
          /\ IsUnsupportedError(out'.pkt, Head(towardServer).payload[1])
          /\ towardClient' = towardClient
          /\ written' = written /\ srv' = srv /\ nRead' = nRead
          /\ ~finished'
    /\ (pc = "sendErr" /\ pc' # pc)
       => /\ towardClient' = Append(towardClient, out)
          /\ pc' = "loop"
          /\ written' = written /\ srv' = srv /\ nRead' = nRead
          /\ nTaken' = nTaken
          /\ ~finished'

\* C2: a command whose first byte is not a supported code gets exactly one
\* synthesized error packet (0xFF, 1002, HY000) on towardClient, with no
\* write to and no read from the server, finished left false, and the
\* handler back at the head of the command loop.
C2_UnsupportedCommand == [][C2_Step]_vars

C2_Witness ==
    /\ pc = "loop" /\ ~finished
    /\ packet.payload = <<22>>
    /\ \E e \in OnChannel : e.how = "synth" /\ IsUnsupportedError(e.pkt, 22)

\* C3: in a rebuilt row a field is NULL exactly where the server's row has
\* NULL.
C3_NullPreserved ==
    \A e \in FromLastRead :
        e.how = "rebuilt" =>
            LET n    == Len(columns)
                orig == Fields(response.payload, n)
                sent == Fields(e.pkt.payload, n)
            IN  IsRowOver(response.payload, n) =>
                   /\ sent.ok
                   /\ \A i \in 1..n :
                         sent.fields[i].nonNull = orig.fields[i].nonNull

C6_SequenceId ==
    /\ \A e \in FromLastRead : e.pkt.seq = response.seq
    /\ LastReadOK /\ out.src # 0 /\ out.src = nRead
          => out.pkt.seq = response.seq

C6_Witness ==
    \E e \in FromLastRead :
        /\ e.how = "rebuilt"
        /\ Len(e.pkt.payload) > Len(response.payload)
        /\ e.pkt.seq = response.seq
        /\ response.seq > 0

\* the auth result is the second packet read, the answer to the timeout
\* query the third
AuthRead == 2
TimeoutRead == 3

\* C7: an auth result that is not OK is put on towardClient before the
\* session ends.
C7_AuthFailureForwarded ==
    ( /\ pc = "done"
      /\ nRead = AuthRead
      /\ LastReadOK
      /\ ~packetIsOK(response) )
    => AuthRead \in forwarded

\* C8: the auth OK reaches towardClient, and a command is taken, only after
\* one timeout query was written and its answer read and found not ERR; that
\* answer never reaches towardClient; an ERR answer ends the session with
\* the auth OK not forwarded and no command taken.
C8_TimeoutGate ==
    /\ (AuthRead \in forwarded \/ nTaken >= 2) =>
          /\ Len(written) >= 2
          /\ written[2] = TimeoutCommand(StatementTimeoutSeconds)
          /\ Cardinality({ k \in 1..Len(written) :
                              written[k] = TimeoutCommand(StatementTimeoutSeconds) }) = 1
          /\ nRead >= TimeoutRead
    /\ nTaken >= 2 => AuthRead \in forwarded
    /\ TimeoutRead \notin forwarded
    /\ out.src # TimeoutRead
    /\ \A e \in OnChannel : e.src # TimeoutRead
    /\ (nRead = TimeoutRead /\ LastReadOK /\ response.payload[1] = 255) =>
          /\ AuthRead \notin forwarded
          /\ out.src # AuthRead
          /\ nTaken = 1
          /\ finished
          /\ pc \in {"loop", "done"}

C8_Witness ==
    /\ AuthRead \in forwarded
    /\ nTaken >= 2
    /\ nRead >= TimeoutRead
    /\ written[2] = TimeoutCommand(StatementTimeoutSeconds)

\* the places where the handler reads a packet of a response
ResponseReads == {"queryFirst", "colDef", "colEOF", "rows", "other"}

C9_Step ==
    /\ (pc \in ResponseReads /\ pc' # pc /\ nRead' = nRead /\ pc' # "crashed")
          => finished'
    /\ finished => finished'
    /\ finished =>
          /\ forwarded' = forwarded
          /\ \/ towardClient' = towardClient
             \/ towardClient # <<>> /\ towardClient' = Tail(towardClient)
          /\ nTaken' = nTaken
          /\ \/ towardServer' = towardServer
             \/ Len(towardServer') = Len(towardServer) + 1
          /\ nRead' = nRead
          /\ written' = written
          /\ srv' = srv
          /\ conn' = conn
          /\ pc' \in {pc, "done"}

\* C9: a failed NextPacket during a response sets finished; finished is
\* never cleared; once it is set the handler sends nothing, takes nothing
\* and does no server I/O, and the deferred Close runs.
C9_FinishedIsFinal == [][C9_Step]_vars /\ (finished ~> closed)

C9_Witness ==
    /\ pc = "done" /\ finished /\ closed
    /\ conn = "down"
    /\ srv.phase = "rows" /\ srv.rows > 0
    /\ nTaken >= 2

\* C10: a transport failure at any read of the handshake ends the session
\* with finished set and the teardown run, and never in a crash.
C10_HandshakeFailure ==
    (conn = "down" /\ nRead < TimeoutRead /\ pc \in {"loop", "done", "crashed"})
    => (finished /\ pc # "crashed")

\* the places where the handler writes a packet to the server: the client's
\* handshake response, the timeout query, a forwarded command
ServerWrites == {"recvHandshake", "setTimeout", "loop"}

C11_Step ==
    (pc \in ServerWrites /\ conn = "up" /\ conn' = "down" /\ closed' = closed)
    => /\ finished'
       /\ pc' = "loop"

\* C11: a WritePacket to the server that fails (the handshake response, the
\* timeout query or a forwarded command) sets finished and sends the handler
\* to the loop exit; the handler does not go on to read a response.
C11_WriteFailureFatal == [][C11_Step]_vars

\* the server packets read so far that were not put on towardClient
NotForwarded == (1..nRead) \ forwarded

\* a step that puts an entry on towardClient puts one entry, at the end; an
\* entry made from a server packet is made from one that was not forwarded
\* before and that was read after all forwarded ones, and carries that
\* packet (a row may be rebuilt, under the same sequence id)
C12_Step ==
    Len(towardClient') > Len(towardClient) =>
        LET e == towardClient'[Len(towardClient')]
        IN  /\ towardClient' = Append(towardClient, e)
            /\ e.src # 0 =>
                  /\ e.src \notin forwarded
                  /\ \A j \in forwarded : j < e.src
                  /\ forwarded' = forwarded \cup {e.src}
                  /\ e.src \in {nRead, AuthRead}
                  /\ e.src = nRead /\ e.how = "verbatim" => e.pkt = response
                  /\ e.src = nRead /\ e.how = "rebuilt" =>
                        pc = "sendRow" /\ e.pkt.seq = response.seq
                  /\ e.src # nRead => e.pkt = authResponse.pkt

\* between two responses and at the end of the session every server packet
\* read has been forwarded, but for the answer to the timeout query
C12_Consumed ==
    pc \in {"loop", "done"} => NotForwarded \subseteq {TimeoutRead}

\* C12: the packets put on towardClient correspond one to one, in order, to
\* the packets read from the server (verbatim, or a row rebuilt); none is
\* dropped, duplicated, merged or reordered, and only the answer to the
\* timeout query is consumed without being forwarded.
C12_ServerToClientOrder == []C12_Consumed /\ [][C12_Step]_vars

\* the handler died at a place where it holds no packet to send: reading a
\* command from towardServer, or reading and decoding a server packet
CrashedInspecting == pc = "crashed" /\ out = NoEntry

\* C13: no packet whose first byte the handler reads has an empty payload:
\* neither the zero Packet that a receive on the closed towardServer hands
\* out, nor the zero Packet of a failed NextPacket, is looked into (the
\* handler never dies on Payload[0] of one).
C13_InspectedNonEmpty ==
    CrashedInspecting => packet.payload # <<>> /\ response.payload # <<>>

\* the same, for the receive that the client side's teardown releases
C13_ReleasedReceive ==
    (CrashedInspecting /\ nRead > TimeoutRead) => packet.payload # <<>>

\* C14: once the client side has closed the bridge, the handler does not
\* send on towardClient (it never dies holding a packet at a send on the
\* closed channel).
C14_NoSendAfterTeardown == ~(pc = "crashed" /\ out # NoEntry)

\* the same, for a teardown in the middle of a result set
C14_MidResultSet == ~(pc = "crashed" /\ out.how = "rebuilt")

\* the classification of spec 4.5, on the bytes of a payload
ClassifiesTerminal(payload) ==
    \/ payload[1] = 0 /\ Len(payload) >= 7
    \/ payload[1] = 255
    \/ payload[1] = 254 /\ Len(payload) < 9

\* the step reads, in the row loop, a packet that is no terminal packet and
\* does not hold one field per column
ReadsMalformedRow ==
    /\ pc = "rows"
    /\ nRead' = nRead + 1
    /\ ~ClassifiesTerminal(response'.payload)
    /\ ~Fields(response'.payload, Len(columns)).ok

C15_Step ==
    ReadsMalformedRow =>
        /\ finished'
        /\ pc' = "loop"
        /\ out' = out
        /\ towardClient' = towardClient

\* C15: a row that does not decode into one field per column (fewer fields
\* than columns, or a field that declares more bytes than remain) ends the
\* session: finished is set and no rebuilt packet for it is sent.
C15_MalformedRow == [][C15_Step]_vars

\* the step reads a server packet
Reads == nRead' = nRead + 1

\* the step hands the packet read to the next send, as it is
HeldVerbatim == out' = Entry(response', nRead', "verbatim")

\* the step sends the packet in hand, and reads nothing
Sends == towardClient' = Append(towardClient, out) /\ nRead' = nRead

C16_Step ==
    /\ (pc = "queryFirst" /\ Reads) =>
          IF ClassifiesTerminal(response'.payload)
          THEN pc' = "sendFirst" /\ HeldVerbatim
          ELSE LET n == ReadEncodedInt(response'.payload, 1)
               IN  n.ok => /\ pc' = "sendCount"
                           /\ columnCount' = n.val
                           /\ HeldVerbatim
    /\ (pc = "sendFirst" /\ pc' # pc) => Sends /\ pc' = "loop"
    /\ (pc = "sendCount" /\ pc' # pc) =>
          /\ Sends
          /\ columns' = <<>>
          /\ pc' = IF columnCount = 0 THEN "colEOF" ELSE "colDef"
    /\ (pc = "colDef" /\ Reads) =>
          /\ Len(columns) < columnCount
          /\ pc' = "sendColDef"
          /\ HeldVerbatim
    /\ (pc = "sendColDef" /\ pc' # pc /\ ~finished') =>
          /\ Sends
          /\ Len(columns') = Len(columns) + 1
          /\ pc' = IF Len(columns') = columnCount THEN "colEOF" ELSE "colDef"
    /\ (pc = "colEOF" /\ Reads) =>
          /\ Len(columns) = columnCount
          /\ pc' = "sendColEOF"
          /\ HeldVerbatim
    /\ (pc = "sendColEOF" /\ pc' # pc) => Sends /\ pc' = "rows"
    /\ (pc = "rows" /\ Reads) =>
          IF ClassifiesTerminal(response'.payload)
          THEN pc' = "sendLast" /\ HeldVerbatim
          ELSE /\ pc' \in {"sendRow", "crashed"}
               /\ Fields(response'.payload, Len(columns)).ok => pc' = "sendRow"
    /\ (pc = "sendRow" /\ pc' # pc) => Sends /\ pc' = "rows"
    /\ (pc = "sendLast" /\ pc' # pc) => Sends /\ pc' = "loop"

\* C16: the answer to a QUERY.  A first packet that classifies as OK, ERR or
\* EOF is forwarded as it is and ends the response with no further read.
\* Otherwise its length-encoded integer N is the column count: the packet is
\* forwarded, exactly N column definitions are read and forwarded as they
\* are, then exactly one more packet is read and forwarded as it is, and
\* only then the row loop runs, up to the first packet that classifies as
\* OK, ERR or EOF.
C16_QueryResponse == [][C16_Step]_vars

C16_Witness ==
    /\ pc = "sendLast"
    /\ nTaken = 2
    /\ columnCount = 2 /\ Len(columns) = 2
    /\ nRead = TimeoutRead + 6
    /\ response.payload[1] = 254
    /\ srv.rows > 0

C17_Step ==
    /\ ( /\ pc = "loop" /\ nTaken' = nTaken + 1
         /\ Head(towardServer).payload # <<>>
         /\ Head(towardServer).payload[1] \in SupportedCodes \ {COM_QUERY}
         /\ conn' = "up" )
       => pc' = "other" /\ written' = Append(written, Head(towardServer))
    /\ (pc = "other" /\ Reads) => pc' = "sendOther" /\ HeldVerbatim
    /\ (pc = "sendOther" /\ pc' # pc) =>
          /\ towardClient' = Append(towardClient,
                                    Entry(response, nRead, "verbatim"))
          /\ nRead' = nRead
          /\ pc' = IF ClassifiesTerminal(response.payload)
                   THEN "loop" ELSE "other"
    /\ pc = "loop" => nRead' = nRead

\* C17: the answer to a supported command other than QUERY.  Every packet
\* read from the server goes on towardClient with its sequence id and its
\* payload; the handler reads on after a packet that is not OK, ERR or EOF,
\* and after the first that is it goes back to the command loop, where it
\* reads nothing from the server.
C17_GenericResponse == [][C17_Step]_vars

C17_Witness ==
    /\ pc = "loop" /\ ~finished
    /\ nTaken = 2
    /\ packet.payload = <<COM_FIELD_LIST>>
    /\ nRead = TimeoutRead + 3
    /\ response.payload[1] = 254
    /\ forwarded = (1..nRead) \ {TimeoutRead}

\* the step reads a row in the row loop right after another row, and both
\* are rebuilt
ReadsSecondRow ==
    /\ pc = "rows" /\ Reads /\ pc' = "sendRow"
    /\ ~ClassifiesTerminal(response.payload)
    /\ Fields(response.payload, Len(columns)).ok

C18_Step ==
    ReadsSecondRow =>
        \A k \in 1..Len(columns) :
            ~ ( /\ IsSafeCalls(response.payload, columns, 1, 1)[k] = 1
                /\ IsSafeCalls(response'.payload, columns, 1, 1)[k] = 1 )

\* C18: within one result set col.IsSafe() is called at most once for each
\* column, whatever the number of rows: a column for which it was called
\* while one row was read is not asked about again while the next row is
\* read.
C18_IsSafeOncePerColumn == [][C18_Step]_vars

\* the commands the server holds and has not answered to the end: those it
\* has not started on, and the one whose response is under way
Outstanding ==
    Len(srv.q) + (IF srv.phase \in {"defs", "defsEOF", "rows"} THEN 1 ELSE 0)

C19_Step ==
    /\ nTaken' = nTaken + 1 =>
          /\ pc \in {"recvHandshake", "loop"}
          /\ out = NoEntry
          /\ Outstanding = 0
    /\ Reads => srv'.q = <<>>

\* C19: requests and responses alternate.  The handler takes a packet from
\* towardServer only when no response is in progress (it holds nothing to
\* send and the server has nothing left to answer); the server never holds
\* more than one command it has not answered to the end; and a packet read
\* from the server belongs to the response to the last command written.
C19_Alternation == [](Outstanding <= 1) /\ [][C19_Step]_vars

\* the payload of the row rebuilt from fields f over the columns cols: NULL
\* and "" as the empty value, a value of a column failing isSafe replaced
RECURSIVE RebuiltFields(_, _, _)
RebuiltFields(f, cols, k) ==
    IF k > Len(cols) THEN <<>>
    ELSE LET v == IF ~f[k].nonNull THEN <<>>
                  ELSE IF IsSafe(cols[k]) THEN f[k].value
                  ELSE sanitizeRow(f[k].value, cols[k])
         IN  LengthEncodedInt(Len(v)) \o v \o RebuiltFields(f, cols, k + 1)

\* what an entry made from the packet read last holds is fixed by that
\* packet and the columns
FixedByServerPacket(e) ==
    (LastReadOK /\ e.src = nRead) =>
        /\ e.how = "verbatim" => e.pkt = response
        /\ (e.how = "rebuilt" /\ Fields(response.payload, Len(columns)).ok) =>
              e.pkt = [seq |-> response.seq,
                       payload |-> RebuiltFields(
                                      Fields(response.payload, Len(columns)).fields,
                                      columns, 1)]

\* a step that changes the flag changes nothing else
C20_Step ==
    sanitizing' # sanitizing =>
        UNCHANGED <<pc, finished, closed, towardServer, towardClient, packet,
                    response, authResponse, out, columns, columnCount, conn,
                    srv, written, nRead, forwarded, nTaken, clientSent>>

\* C20: what goes on towardClient does not depend on the sanitizing flag.
\* With the flag set and cleared at any time of the session, every packet
\* the handler sends is the server's packet as it is or, for a row, the
\* rebuilt row with every non-null value of a column failing isSafe
\* replaced; setting or clearing the flag changes nothing else of the
\* session.
C20_FlagIndependent ==
    /\ [](FixedByServerPacket(out) /\ \A e \in OnChannel : FixedByServerPacket(e))
    /\ [][C20_Step]_vars

C20_Witness ==
    /\ sanitizing
    /\ out.how = "rebuilt" /\ out.src = nRead
    /\ \E k \in 1..Len(columns) :
          /\ ~IsSafe(columns[k])
          /\ Fields(response.payload, Len(columns)).ok
          /\ Fields(response.payload, Len(columns)).fields[k].nonNull
          /\ Fields(out.pkt.payload, Len(columns)).fields[k].value
                # Fields(response.payload, Len(columns)).fields[k].value

=============================================================================
